---------------------------- MODULE Spec2Model ----------------------------
(***************************************************************************)
(* usbmount: mount-table parsing (src/src/lib.rs MountInfo), block-device  *)
(* classification (PartitionDevice::from_device) and the mount / umount    *)
(* commands of src/src/main.rs, as a state machine.                        *)
(*                                                                         *)
(* Text is modelled as text: strings are TLC strings, a character is a     *)
(* string of length one, and the regular expression of MountInfo::parse    *)
(* is run on the rendered lines of the kernel mount table.                 *)
(***************************************************************************)
EXTENDS Integers, Sequences, FiniteSets, TLC

(***************************************************************************)
(* Strings                                                                 *)
(***************************************************************************)
Char(s, i) == SubSeq(s, i, i)

Digits == {"0", "1", "2", "3", "4", "5", "6", "7", "8", "9"}

Letters ==
    {"a", "b", "c", "d", "e", "f", "g", "h", "i", "j", "k", "l", "m",
     "n", "o", "p", "q", "r", "s", "t", "u", "v", "w", "x", "y", "z",
     "A", "B", "C", "D", "E", "F", "G", "H", "I", "J", "K", "L", "M",
     "N", "O", "P", "Q", "R", "S", "T", "U", "V", "W", "X", "Y", "Z"}

Whitespace == {" ", "\t"}

RECURSIVE JoinWith(_, _)
\* The strings of seq, each preceded by sep.
JoinWith(seq, sep) ==
    IF seq = <<>> THEN ""
    ELSE sep \o Head(seq) \o JoinWith(Tail(seq), sep)

(***************************************************************************)
(* The regular expression of MountInfo::parse (lib.rs:30), element by      *)
(* element: digits, space, digits, space, digits colon digits, space,      *)
(* non-spaces, space, non-spaces, space, option characters, space, tag     *)
(* characters, space, dash, blank, non-spaces, space, non-spaces, rest.    *)
(* k = "star" is a greedy repetition of class c, k = "one" is exactly one  *)
(* character of class c.                                                   *)
(***************************************************************************)
MountInfoRegex ==
    << [k |-> "star", c |-> "digit"],      \*  1
       [k |-> "one",  c |-> "space"],      \*  2
       [k |-> "star", c |-> "digit"],      \*  3
       [k |-> "one",  c |-> "space"],      \*  4
       [k |-> "star", c |-> "digit"],      \*  5
       [k |-> "one",  c |-> "colon"],      \*  6
       [k |-> "star", c |-> "digit"],      \*  7
       [k |-> "one",  c |-> "space"],      \*  8
       [k |-> "star", c |-> "nonspace"],   \*  9
       [k |-> "one",  c |-> "space"],      \* 10
       [k |-> "star", c |-> "nonspace"],   \* 11
       [k |-> "one",  c |-> "space"],      \* 12
       [k |-> "star", c |-> "option"],     \* 13
       [k |-> "one",  c |-> "space"],      \* 14
       [k |-> "star", c |-> "tag"],        \* 15
       [k |-> "one",  c |-> "space"],      \* 16
       [k |-> "one",  c |-> "dash"],       \* 17
       [k |-> "one",  c |-> "blank"],      \* 18
       [k |-> "star", c |-> "nonspace"],   \* 19
       [k |-> "one",  c |-> "space"],      \* 20
       [k |-> "star", c |-> "nonspace"],   \* 21
       [k |-> "star", c |-> "any"] >>      \* 22

\* Whether character ch is in the character class c.
ClassHas(c, ch) ==
    CASE c = "digit"    -> ch \in Digits
      [] c = "space"    -> ch \in Whitespace
      [] c = "nonspace" -> ch \notin Whitespace
      [] c = "option"   -> ch \in Letters \cup Digits \cup {","}
      [] c = "tag"      -> ch \in Letters \cup Digits \cup {":"} \cup Whitespace
      [] c = "colon"    -> ch = ":"
      [] c = "dash"     -> ch = "-"
      [] c = "blank"    -> ch = " "
      [] c = "any"      -> ch # "\n"

NoMatch == [ok |-> FALSE, ends |-> <<>>]

RECURSIVE RunEnd(_, _, _)
\* The position after the longest run of class-c characters starting at i.
RunEnd(line, c, i) ==
    IF i <= Len(line) /\ ClassHas(c, Char(line, i))
    THEN RunEnd(line, c, i + 1)
    ELSE i

RECURSIVE MatchElems(_, _, _), TryStar(_, _, _, _)
\* Match elements k.. of the regex at position i (the next character to
\* read), preferring longer repetitions first, as the regex engine does.
\* ends[j] is the position after element k + j - 1.
MatchElems(line, k, i) ==
    IF k > Len(MountInfoRegex) THEN [ok |-> TRUE, ends |-> <<>>]
    ELSE IF MountInfoRegex[k].k = "one"
    THEN IF i <= Len(line) /\ ClassHas(MountInfoRegex[k].c, Char(line, i))
         THEN LET r == MatchElems(line, k + 1, i + 1)
              IN  IF r.ok THEN [ok |-> TRUE, ends |-> <<i + 1>> \o r.ends]
                  ELSE NoMatch
         ELSE NoMatch
    ELSE TryStar(line, k, i, RunEnd(line, MountInfoRegex[k].c, i))

\* Element k is a star that may end anywhere from j down to i.
TryStar(line, k, i, j) ==
    LET r == MatchElems(line, k + 1, j)
    IN  IF r.ok THEN [ok |-> TRUE, ends |-> <<j>> \o r.ends]
        ELSE IF j > i THEN TryStar(line, k, i, j - 1)
        ELSE NoMatch

RECURSIVE RegexFind(_, _)
\* The leftmost match at or after position s (the search is unanchored).
RegexFind(line, s) ==
    IF s > Len(line) + 1 THEN [ok |-> FALSE, start |-> 0, ends |-> <<>>]
    ELSE LET r == MatchElems(line, 1, s)
         IN  IF r.ok THEN [ok |-> TRUE, start |-> s, ends |-> r.ends]
             ELSE RegexFind(line, s + 1)

\* re.is_match(&line) (lib.rs:31)
RegexIsMatch(line) == RegexFind(line, 1).ok

\* The text matched by elements first..last of the match m.
Capture(line, m, first, last) ==
    LET from == IF first = 1 THEN m.start ELSE m.ends[first - 1]
    IN  SubSeq(line, from, m.ends[last] - 1)

\* caps[3], the major:minor id (lib.rs:36)
CaptureId(line) == Capture(line, RegexFind(line, 1), 5, 7)

\* caps[5], the mount point (lib.rs:37)
CaptureMountPoint(line) == Capture(line, RegexFind(line, 1), 11, 11)


(***************************************************************************)
(* Option<T>: None is the empty sequence, Some(v) is <<v>>.                *)
(***************************************************************************)
None == <<>>
Some(v) == <<v>>
IsSome(o) == o # <<>>
Unwrap(o) == o[1]
UnwrapOr(o, d) == IF o # <<>> THEN o[1] ELSE d

(***************************************************************************)
(* State                                                                   *)
(*   mountTable  the kernel's mount table, one record per mount, in the    *)
(*               order of /proc/self/mountinfo                             *)
(*   dirs, files the directories and the regular files that exist (paths)  *)
(*   udevDb      the block devices udev reports, in scan order             *)
(*   inv         per process: the invocation's position and local values   *)
(*   runs        how many invocations were started                         *)
(***************************************************************************)
VARIABLES mountTable, dirs, files, udevDb, inv, runs

vars == <<mountTable, dirs, files, udevDb, inv, runs>>

\* One mount of the kernel's mount table.
Mnt(dev, mp, tags, fstype, source) ==
    [dev |-> dev, mp |-> mp, tags |-> tags, fstype |-> fstype,
     source |-> source]

(***************************************************************************)
(* /proc/self/mountinfo: the line the kernel prints for the i-th mount, in *)
(* the layout the comment at lib.rs:26 gives: id, parent id, major:minor,  *)
(* root, mount point, mount options, optional tags, "-", filesystem type,  *)
(* mount source, superblock options.                                       *)
(***************************************************************************)
MountInfoLine(m, i) ==
    ToString(20 + i) \o " " \o ToString(IF i = 1 THEN 1 ELSE 21) \o " "
        \o m.dev \o " / " \o m.mp \o " rw,relatime"
        \o JoinWith(m.tags, " ") \o " - " \o m.fstype \o " " \o m.source
        \o " rw"

(***************************************************************************)
(* MountInfo (lib.rs:13-57): info maps an id to its mount points.          *)
(***************************************************************************)
EmptyInfo == [id \in {} |-> <<>>]

\* lib.rs:39-43
InfoPush(info, id, mount_point) ==
    IF id \in DOMAIN info
    THEN [info EXCEPT ![id] = Append(@, mount_point)]
    ELSE info @@ (id :> <<mount_point>>)

\* lib.rs:31: the line is rejected (and parse panics) unless the regex matches
LineRejected(line) == ~RegexIsMatch(line)

\* lib.rs:49-56
get_mount_points_by_id(info, id) ==
    IF id \in DOMAIN info THEN info[id] ELSE <<>>

(***************************************************************************)
(* udev.  A block device is a record                                       *)
(*   name      its sysfs name            devnode  its /dev path            *)
(*   fstype, label, model, dmname        the properties ID_FS_TYPE,        *)
(*             ID_FS_LABEL, ID_MODEL, DM_NAME (Options)                    *)
(*   usb       whether parent_with_subsystem("usb") finds an ancestor      *)
(*   dev       the "dev" attribute, major:minor                            *)
(*   size      the "size" attribute, in sectors                            *)
(*   slaves    the entries read_dir yields for <syspath>/slaves, each      *)
(*             [ok, name]; an entry with ok = FALSE is an Err item         *)
(* devnode, dev and size exist for every block device.                     *)
(***************************************************************************)
DeviceByName(db, n) ==
    LET i == CHOOSE j \in 1..Len(db) : db[j].name = n IN db[i]

\* check_is_usb_device taking any answer of the parent lookup for an ancestor
check_is_usb_device_any(d) == TRUE

\* lib.rs:87-93
check_is_usb_device(d) == d.usb

RECURSIVE LastOkSlave(_, _)
\* lib.rs:145-151: the loop keeps the last Ok entry of the directory listing
LastOkSlave(slaves, parent_device) ==
    IF slaves = <<>> THEN parent_device
    ELSE LastOkSlave(Tail(slaves),
                     IF Head(slaves).ok THEN Some(Head(slaves).name)
                     ELSE parent_device)

\* lib.rs:99-101
HasFilesystem(d) == IsSome(d.fstype)

\* lib.rs:137
IsDeviceMapper(d) == IsSome(d.dmname)

\* Which branch of from_device the device takes (lib.rs:99-201):
\* "nofs", "usb", "dm", "dm_noparent", "dm_notusb" or "other".
Classify(db, d) ==
    IF ~HasFilesystem(d) THEN "nofs"
    ELSE IF check_is_usb_device(d) THEN "usb"
    ELSE IF IsDeviceMapper(d)
    THEN LET parent_device == LastOkSlave(d.slaves, None)
         IN  IF ~IsSome(parent_device) THEN "dm_noparent"
             ELSE IF ~check_is_usb_device(DeviceByName(db, Unwrap(parent_device)))
             THEN "dm_notusb"
             ELSE "dm"
    ELSE "other"

\* Whether from_device returns Some (lib.rs:105, 165)
IsClassified(db, d) == Classify(db, d) \in {"usb", "dm"}

\* The device-mapper branch reading the device's own ID_MODEL
UsbModelName_own(db, d) == d.model

\* lib.rs:126 and lib.rs:186-188
UsbModelName(db, d) ==
    IF Classify(db, d) = "usb" THEN d.model
    ELSE DeviceByName(db, Unwrap(LastOkSlave(d.slaves, None))).model

SectorSize == 512

\* The PartitionDevice from_device builds (lib.rs:105-136, 165-198)
MakePartitionDevice(db, d, info) ==
    [dev_path             |-> d.devnode,
     partition_label      |-> d.label,
     partition_filesystem |-> Unwrap(d.fstype),
     partition_size       |-> d.size * SectorSize,
     usb_model_name       |-> UsbModelName(db, d),
     mounted_points       |-> get_mount_points_by_id(info, d.dev)]


(***************************************************************************)
(* Paths and the filesystem                                                *)
(***************************************************************************)
IDENTIFY_FILE == ".create_by_usbmount"

RECURSIVE LastSlash(_, _)
\* The position of the last "/" of s at or before i, 0 if there is none.
LastSlash(s, i) ==
    IF i = 0 THEN 0
    ELSE IF Char(s, i) = "/" THEN i
    ELSE LastSlash(s, i - 1)

\* Path::file_name (main.rs:242-245), for a path that does not end in "/"
FileName(path) == SubSeq(path, LastSlash(path, Len(path)) + 1, Len(path))

\* Path::parent, for a path that does not end in "/"
ParentPath(path) ==
    LET i == LastSlash(path, Len(path))
    IN  IF i <= 1 THEN "/" ELSE SubSeq(path, 1, i - 1)

\* Path::join (main.rs:251, 273): an absolute component replaces the path
PathJoin(path, c) ==
    IF Len(c) > 0 /\ Char(c, 1) = "/" THEN c
    ELSE IF Len(path) > 0 /\ Char(path, Len(path)) # "/" THEN path \o "/" \o c
    ELSE path \o c

RECURSIVE AncestorsAndSelf(_)
\* The directories create_dir_all makes sure exist (main.rs:267)
AncestorsAndSelf(path) ==
    IF path = "/" \/ path = "" THEN {}
    ELSE {path} \cup AncestorsAndSelf(ParentPath(path))

IsMountPoint(table, path) == \E i \in 1..Len(table) : table[i].mp = path

\* Path::exists (main.rs:252, 259)
PathExists(path) == path \in dirs \/ path \in files

\* Path::exists of a file inside directory dir (main.rs:366).  While a
\* filesystem is mounted on dir, the files of the directory underneath are
\* hidden; the mounted filesystems hold no file of the tool.
FileExistsIn(dir, name) ==
    /\ ~IsMountPoint(mountTable, dir)
    /\ PathJoin(dir, name) \in files

RECURSIVE RemoveTopMount(_, _)
\* umount(2) detaches the mount that was attached last at path
RemoveTopMount(table, path) ==
    IF table = <<>> THEN <<>>
    ELSE IF table[Len(table)].mp = path THEN SubSeq(table, 1, Len(table) - 1)
    ELSE Append(RemoveTopMount(SubSeq(table, 1, Len(table) - 1), path),
                table[Len(table)])

(***************************************************************************)
(* An invocation of the program (main.rs:172-394)                          *)
(***************************************************************************)
SeqProcs == {1}
ConcProcs == {1, 2}

NoArgs == [auto_mount_dir |-> "", mount_option |-> None, dev_path |-> None,
           mount_path |-> None]
NoEnv == [SUDO_USER |-> None, SUDO_UID |-> None, SUDO_GID |-> None,
          euid |-> 0, egid |-> 0, username |-> ""]

IdleInv ==
    [pc |-> "idle", cmd |-> "", args |-> NoArgs, env |-> NoEnv,
     scanPos |-> 0, devices |-> <<>>, mountInfo |-> None,
     parsePos |-> 0, parseInfo |-> EmptyInfo,
     device |-> None, prompted |-> FALSE,
     mount_path |-> "", deduplicate_id |-> 0, idx |-> 0,
     ops |-> <<>>, stderr |-> <<>>, stdout |-> <<>>, exit |-> ""]

\* One call of a primitive that changes the system, as the invocation made it.
Op(op, path, src, opts, ok) ==
    [op |-> op, path |-> path, src |-> src, opts |-> opts, ok |-> ok]

Set(p, r) == inv' = [inv EXCEPT ![p] = r]

\* std::process::exit / return from main with the given outcome
Finish(p, r, outcome, err) ==
    Set(p, [r EXCEPT !.pc = "done", !.exit = outcome,
                     !.stderr = IF err = None THEN @ ELSE Append(@, Unwrap(err))])

\* a panic (expect / unwrap / panic!)
Panic(p, r, what) ==
    Set(p, [r EXCEPT !.pc = "panic", !.exit = what])

UserId(login) == IF login = "root" THEN 0 ELSE 1000

\* main.rs:176-183: unless skipped, a non-root process re-executes itself
\* under sudo, which sets SUDO_USER, SUDO_UID and SUDO_GID and runs as root.
ProcessEnv(login, skip_escalate) ==
    IF ~skip_escalate /\ UserId(login) # 0
    THEN [SUDO_USER |-> Some(login),
          SUDO_UID |-> Some(ToString(UserId(login))),
          SUDO_GID |-> Some(ToString(UserId(login))),
          euid |-> 0, egid |-> 0, username |-> "root"]
    ELSE [SUDO_USER |-> None, SUDO_UID |-> None, SUDO_GID |-> None,
          euid |-> UserId(login), egid |-> UserId(login), username |-> login]

MaxRuns == 2

\* main.rs:172-183: the process starts (escalating for mount and umount)
\* and begins enumerating devices
Invoke(p, cmd, login, skip_escalate) ==
    /\ inv[p].pc = "idle"
    /\ runs < MaxRuns
    /\ runs' = runs + 1
    /\ Set(p, [IdleInv EXCEPT !.pc = "scan", !.cmd = cmd,
                              !.env = ProcessEnv(login,
                                         skip_escalate \/ cmd = "info"),
                              !.scanPos = 1])
    /\ UNCHANGED <<mountTable, dirs, files, udevDb>>

\* lib.rs:213-218: one device of the scan
ScanDevice(p) ==
    LET r == inv[p] IN
    /\ r.pc = "scan"
    /\ r.scanPos <= Len(udevDb)
    /\ LET d == udevDb[r.scanPos] IN
       IF ~IsClassified(udevDb, d)
       THEN Set(p, [r EXCEPT !.scanPos = @ + 1])
       ELSE IF ~IsSome(r.mountInfo)
       THEN \* lib.rs:59-61: the first use of the mount table parses it
            Set(p, [r EXCEPT !.pc = "parse", !.parsePos = 1,
                             !.parseInfo = EmptyInfo])
       ELSE Set(p, [r EXCEPT !.scanPos = @ + 1,
                             !.devices = Append(@,
                                 MakePartitionDevice(udevDb, d, Unwrap(r.mountInfo)))])
    /\ UNCHANGED <<mountTable, dirs, files, udevDb, runs>>

\* lib.rs:25-44: one line of /proc/self/mountinfo
ParseLine(p) ==
    LET r == inv[p] IN
    /\ r.pc = "parse"
    /\ r.parsePos <= Len(mountTable)
    /\ LET line == MountInfoLine(mountTable[r.parsePos], r.parsePos) IN
       IF LineRejected(line)
       THEN Panic(p, r, "mountinfo parse error")
       ELSE Set(p, [r EXCEPT !.parsePos = @ + 1,
                             !.parseInfo = InfoPush(@, CaptureId(line),
                                                    CaptureMountPoint(line))])
    /\ UNCHANGED <<mountTable, dirs, files, udevDb, runs>>

\* lib.rs:46: the end of the file; the table is cached for the process
ParseEnd(p) ==
    LET r == inv[p] IN
    /\ r.pc = "parse"
    /\ r.parsePos > Len(mountTable)
    /\ Set(p, [r EXCEPT !.pc = "scan", !.mountInfo = Some(r.parseInfo)])
    /\ UNCHANGED <<mountTable, dirs, files, udevDb, runs>>

\* lib.rs:220, main.rs:185-196: the inventory is complete and main matches on
\* the command.  The command's arguments are fixed when the process starts
\* and first read here, so this is where they are drawn.
ScanEnd(p, args) ==
    LET r == inv[p] IN
    /\ r.pc = "scan"
    /\ r.scanPos > Len(udevDb)
    /\ Set(p, [r EXCEPT !.pc = IF r.cmd = "info" THEN "print" ELSE "select",
                        !.args = args])
    /\ UNCHANGED <<mountTable, dirs, files, udevDb, runs>>

\* main.rs:380-392
PrintInfo(p) ==
    LET r == inv[p] IN
    /\ r.pc = "print"
    /\ Set(p, [r EXCEPT !.pc = "done", !.exit = "ok",
                        !.stdout = [i \in 1..Len(r.devices) |-> r.devices[i].dev_path]])
    /\ UNCHANGED <<mountTable, dirs, files, udevDb, runs>>

\* the process is gone
Exit(p) ==
    /\ inv[p].pc \in {"done", "panic"}
    /\ Set(p, IdleInv)
    /\ UNCHANGED <<mountTable, dirs, files, udevDb, runs>>


(***************************************************************************)
(* Device selection (main.rs:197-226, 319-348, 89-170)                     *)
(***************************************************************************)
DevicePaths(devices) == {devices[i].dev_path : i \in 1..Len(devices)}

\* devices_map.remove(path): the map holds the last device collected per path
DeviceAt(devices, path) ==
    devices[CHOOSE i \in 1..Len(devices) :
                /\ devices[i].dev_path = path
                /\ \A j \in (i + 1)..Len(devices) : devices[j].dev_path # path]

\* Every device of the inventory offered
Selectable_all(cmd, devices) == DevicePaths(devices)

\* main.rs:92 and main.rs:133: the devices offered for interactive selection
Selectable(cmd, devices) ==
    {path \in DevicePaths(devices) :
        IF cmd = "mount"
        THEN Len(DeviceAt(devices, path).mounted_points) = 0
        ELSE Len(DeviceAt(devices, path).mounted_points) > 0}

Selected(device) == [exit |-> "", device |-> Some(device), prompt |-> FALSE]
NotSelected(why) == [exit |-> why, device |-> None, prompt |-> FALSE]

\* main.rs:113-118, 155-160: the outcome came out of the selection prompt
Prompted(o) == [o EXCEPT !.prompt = TRUE]

\* The outcomes of the match on (dev_path, devices_map.len()): each either
\* selects a device or ends the process.
SelectOutcomes(cmd, dev_path, devices) ==
    IF IsSome(dev_path)
    THEN IF Unwrap(dev_path) \notin DevicePaths(devices)
         THEN {NotSelected("device not found")}
         ELSE {Selected(DeviceAt(devices, Unwrap(dev_path)))}
    ELSE IF Cardinality(DevicePaths(devices)) = 1
    THEN {Selected(DeviceAt(devices, path)) : path \in DevicePaths(devices)}
    ELSE IF Cardinality(DevicePaths(devices)) = 0
    THEN {NotSelected("usb block device not found")}
    ELSE IF Selectable(cmd, devices) = {}
    THEN {NotSelected(IF cmd = "mount" THEN "all device already mounted"
                      ELSE "no mounted device found")}
    ELSE {Prompted(Selected(DeviceAt(devices, path))) :
              path \in Selectable(cmd, devices)}
             \cup {Prompted(NotSelected("selection cancelled"))}

SelectDevice(p) ==
    LET r == inv[p] IN
    /\ r.pc = "select"
    /\ \E o \in SelectOutcomes(r.cmd, r.args.dev_path, r.devices) :
           IF IsSome(o.device)
           THEN Set(p, [r EXCEPT !.pc = "check", !.device = o.device,
                                 !.prompted = o.prompt])
           ELSE Finish(p, [r EXCEPT !.prompted = o.prompt], o.exit,
                       IF o.prompt THEN None
                       ELSE Some([kind |-> o.exit, path |-> ""]))
    /\ UNCHANGED <<mountTable, dirs, files, udevDb, runs>>

(***************************************************************************)
(* mount (main.rs:228-316)                                                 *)
(***************************************************************************)
\* The check comparing against one instead of zero
AlreadyMounted_gt1(device) == Len(device.mounted_points) > 1

\* main.rs:228
AlreadyMounted(device) == Len(device.mounted_points) > 0

\* main.rs:238-247
BaseDir(device) ==
    IF IsSome(device.partition_label) THEN Unwrap(device.partition_label)
    ELSE FileName(device.dev_path)

\* main.rs:249
InvokingUser(env) == UnwrapOr(env.SUDO_USER, env.username)

\* main.rs:251
CandidatePath(auto_mount_dir, env, device) ==
    PathJoin(PathJoin(auto_mount_dir, InvokingUser(env)), BaseDir(device))

\* main.rs:255-256
DedupPath(mount_path, deduplicate_id) ==
    mount_path \o "-" \o ToString(deduplicate_id)

MOUNT_WITH_DEFAULT_OPTION_FILESYSTEM == {"ntfs", "vfat", "exfat"}

\* The default options built from the effective ids alone
MountOption_effective(mount_option, filesystem, env) ==
    IF IsSome(mount_option) THEN Unwrap(mount_option)
    ELSE IF filesystem \in MOUNT_WITH_DEFAULT_OPTION_FILESYSTEM
    THEN "uid=" \o ToString(env.euid) \o ",gid=" \o ToString(env.egid)
    ELSE ""

\* main.rs:281-295
MountOption(mount_option, filesystem, env) ==
    IF IsSome(mount_option) THEN Unwrap(mount_option)
    ELSE IF filesystem \in MOUNT_WITH_DEFAULT_OPTION_FILESYSTEM
    THEN "uid=" \o UnwrapOr(env.SUDO_UID, ToString(env.euid))
             \o ",gid=" \o UnwrapOr(env.SUDO_GID, ToString(env.egid))
    ELSE ""

\* main.rs:228-251: the already-mounted check and the choice of the path
CheckMounted(p) ==
    LET r == inv[p]
        device == Unwrap(r.device) IN
    /\ r.pc = "check"
    /\ r.cmd = "mount"
    /\ IF AlreadyMounted(device)
       THEN Finish(p, r, "already mounted",
                   Some([kind |-> "already mounted",
                         path |-> device.mounted_points[1]]))
       ELSE IF IsSome(r.args.mount_path)
       THEN Set(p, [r EXCEPT !.pc = "mount",
                             !.mount_path = Unwrap(r.args.mount_path)])
       ELSE Set(p, [r EXCEPT !.pc = "probe",
                             !.mount_path = CandidatePath(r.args.auto_mount_dir,
                                                          r.env, device)])
    /\ UNCHANGED <<mountTable, dirs, files, udevDb, runs>>

\* main.rs:252-253
ProbeCandidate(p) ==
    LET r == inv[p] IN
    /\ r.pc = "probe"
    /\ IF PathExists(r.mount_path)
       THEN Set(p, [r EXCEPT !.pc = "dedup", !.deduplicate_id = 0])
       ELSE Set(p, [r EXCEPT !.pc = "mkdir"])
    /\ UNCHANGED <<mountTable, dirs, files, udevDb, runs>>

\* main.rs:254-265: one turn of the loop
ProbeSuffix(p) ==
    LET r == inv[p]
        new_mount_path == DedupPath(r.mount_path, r.deduplicate_id) IN
    /\ r.pc = "dedup"
    /\ IF PathExists(new_mount_path)
       THEN Set(p, [r EXCEPT !.deduplicate_id = @ + 1])
       ELSE Set(p, [r EXCEPT !.pc = "mkdir", !.mount_path = new_mount_path])
    /\ UNCHANGED <<mountTable, dirs, files, udevDb, runs>>

\* A creation that is refused when the directory is there already
CreateDirAllOk_exclusive(path) ==
    /\ path \notin dirs
    /\ AncestorsAndSelf(path) \cap files = {}

\* main.rs:267: create_dir_all can succeed unless a file is in the way; a
\* directory that is there already is no error
CreateDirAllOk(path) == AncestorsAndSelf(path) \cap files = {}

\* main.rs:273: File::create can succeed in a directory, also on a file that
\* is there already (it is truncated)
FileCreateOk(dir, path) == dir \in dirs /\ path \notin dirs

\* main.rs:267-270: create_dir_all succeeds or the process panics
CreateDir(p) ==
    LET r == inv[p] IN
    /\ r.pc = "mkdir"
    /\ \E ok \in BOOLEAN :
          /\ ok => CreateDirAllOk(r.mount_path)
          /\ IF ok
             THEN /\ dirs' = dirs \cup AncestorsAndSelf(r.mount_path)
                  /\ Set(p, [r EXCEPT !.pc = "mkfile",
                                !.ops = Append(@, Op("mkdir", r.mount_path, "", "", TRUE))])
             ELSE /\ dirs' = dirs
                  /\ Panic(p, [r EXCEPT
                                !.ops = Append(@, Op("mkdir", r.mount_path, "", "", FALSE))],
                           "mount path create error")
    /\ UNCHANGED <<mountTable, files, udevDb, runs>>

\* main.rs:273-276: File::create succeeds or the process panics.  A file
\* created in a directory a filesystem is mounted on lands in that filesystem.
CreateIdentifyFile(p) ==
    LET r == inv[p]
        path == PathJoin(r.mount_path, IDENTIFY_FILE) IN
    /\ r.pc = "mkfile"
    /\ \E ok \in BOOLEAN :
          /\ ok => FileCreateOk(r.mount_path, path)
          /\ IF ok
             THEN /\ files' = IF IsMountPoint(mountTable, r.mount_path) THEN files
                              ELSE files \cup {path}
                  /\ Set(p, [r EXCEPT !.pc = "mount",
                                !.ops = Append(@, Op("create", path, "", "", TRUE))])
             ELSE /\ files' = files
                  /\ Panic(p, [r EXCEPT
                                !.ops = Append(@, Op("create", path, "", "", FALSE))],
                           "create identify file error")
    /\ UNCHANGED <<mountTable, dirs, udevDb, runs>>

\* The major:minor id of the block device behind a device path.
DevIdOf(db, dev_path) ==
    LET i == CHOOSE j \in 1..Len(db) : db[j].devnode = dev_path IN db[i].dev

\* The tags of a new mount: it is a shared mount, in a peer group of its own,
\* exactly when its parent mount (the root) is shared.
NewMountTags(table) ==
    IF table[1].tags = <<>> THEN <<>>
    ELSE <<"shared:" \o ToString(Len(table) + 1)>>

\* mount(2) as Mount::new calls it: the target must be a directory, and a
\* device is not mounted twice on one mount point.
MountCanSucceed(table, dev, target) ==
    /\ target \in dirs
    /\ \A i \in 1..Len(table) : ~(table[i].dev = dev /\ table[i].mp = target)

\* main.rs:281-316
DoMount(p) ==
    LET r == inv[p]
        device == Unwrap(r.device)
        mount_option == MountOption(r.args.mount_option,
                                    device.partition_filesystem, r.env)
        dev == DevIdOf(udevDb, device.dev_path) IN
    /\ r.pc = "mount"
    /\ \E ok \in BOOLEAN :
          /\ ok => MountCanSucceed(mountTable, dev, r.mount_path)
          /\ LET r2 == [r EXCEPT !.ops = Append(@,
                          Op("mount", r.mount_path, device.dev_path, mount_option, ok))]
             IN IF ok
                THEN /\ mountTable' = Append(mountTable,
                            Mnt(dev, r.mount_path, NewMountTags(mountTable),
                                device.partition_filesystem, device.dev_path))
                     /\ Set(p, [r2 EXCEPT !.pc = "done", !.exit = "ok",
                                          !.stdout = Append(@, r.mount_path)])
                ELSE /\ mountTable' = mountTable
                     /\ Finish(p, r2, "mount failed",
                               Some([kind |-> "mount failed", path |-> r.mount_path]))
    /\ UNCHANGED <<dirs, files, udevDb, runs>>

(***************************************************************************)
(* umount (main.rs:350-378)                                                *)
(***************************************************************************)
\* main.rs:350
NotMounted(device) == Len(device.mounted_points) = 0

\* main.rs:350-354
CheckUmount(p) ==
    LET r == inv[p]
        device == Unwrap(r.device) IN
    /\ r.pc = "check"
    /\ r.cmd = "umount"
    /\ IF NotMounted(device)
       THEN Finish(p, r, "not mounted", Some([kind |-> "not mounted", path |-> ""]))
       ELSE Set(p, [r EXCEPT !.pc = "umount", !.idx = 1])
    /\ UNCHANGED <<mountTable, dirs, files, udevDb, runs>>

\* main.rs:355-364: unmount of the next mount point; a failure is reported
\* and the loop goes on
UnmountPoint(p) ==
    LET r == inv[p]
        mount_point == Unwrap(r.device).mounted_points[r.idx] IN
    /\ r.pc = "umount"
    /\ r.idx <= Len(Unwrap(r.device).mounted_points)
    /\ \E ok \in BOOLEAN :
          /\ ok => IsMountPoint(mountTable, mount_point)
          /\ LET r2 == [r EXCEPT !.ops = Append(@,
                          Op("umount", mount_point, "", "", ok))]
             IN IF ok
                THEN /\ mountTable' = RemoveTopMount(mountTable, mount_point)
                     /\ Set(p, [r2 EXCEPT !.pc = "identify",
                                          !.stdout = Append(@, mount_point)])
                ELSE /\ mountTable' = mountTable
                     /\ Set(p, [r2 EXCEPT !.idx = @ + 1,
                                          !.stderr = Append(@,
                                              [kind |-> "umount failed",
                                               path |-> mount_point])])
    /\ UNCHANGED <<dirs, files, udevDb, runs>>

\* main.rs:365-366
\* The identify file taken to be in every directory
IdentifyFileExists_always(mount_point) == TRUE

\* main.rs:365-366: identify_file_path.exists()
IdentifyFileExists(mount_point) == FileExistsIn(mount_point, IDENTIFY_FILE)

CheckIdentify(p) ==
    LET r == inv[p]
        mount_point == Unwrap(r.device).mounted_points[r.idx] IN
    /\ r.pc = "identify"
    /\ IF IdentifyFileExists(mount_point)
       THEN Set(p, [r EXCEPT !.pc = "rmfile"])
       ELSE Set(p, [r EXCEPT !.pc = "umount", !.idx = @ + 1])
    /\ UNCHANGED <<mountTable, dirs, files, udevDb, runs>>

\* main.rs:367-370: remove_file succeeds or the process panics
RemoveIdentifyFile(p) ==
    LET r == inv[p]
        mount_point == Unwrap(r.device).mounted_points[r.idx]
        path == PathJoin(mount_point, IDENTIFY_FILE) IN
    /\ r.pc = "rmfile"
    /\ \E ok \in BOOLEAN :
          /\ ok => FileExistsIn(mount_point, IDENTIFY_FILE)
          /\ IF ok
             THEN /\ files' = files \ {path}
                  /\ Set(p, [r EXCEPT !.pc = "rmdir",
                                !.ops = Append(@, Op("rmfile", path, "", "", TRUE))])
             ELSE /\ files' = files
                  /\ Panic(p, [r EXCEPT
                                !.ops = Append(@, Op("rmfile", path, "", "", FALSE))],
                           "remove identify file error")
    /\ UNCHANGED <<mountTable, dirs, udevDb, runs>>

\* rmdir(2) needs an empty directory that is no mount point
CanRemoveDir(table, path) ==
    /\ path \in dirs
    /\ ~IsMountPoint(table, path)
    /\ \A f \in files \cup dirs : ParentPath(f) # path

\* main.rs:371-374: remove_dir succeeds or the process panics
RemoveDir(p) ==
    LET r == inv[p]
        mount_point == Unwrap(r.device).mounted_points[r.idx] IN
    /\ r.pc = "rmdir"
    /\ \E ok \in BOOLEAN :
          /\ ok => CanRemoveDir(mountTable, mount_point)
          /\ IF ok
             THEN /\ dirs' = dirs \ {mount_point}
                  /\ Set(p, [r EXCEPT !.pc = "umount", !.idx = @ + 1,
                                !.ops = Append(@, Op("rmdir", mount_point, "", "", TRUE))])
             ELSE /\ dirs' = dirs
                  /\ Panic(p, [r EXCEPT
                                !.ops = Append(@, Op("rmdir", mount_point, "", "", FALSE))],
                           "remove mount point directory error")
    /\ UNCHANGED <<mountTable, files, udevDb, runs>>

\* main.rs:377-379: the loop is over and main returns
UmountEnd(p) ==
    LET r == inv[p] IN
    /\ r.pc = "umount"
    /\ r.idx > Len(Unwrap(r.device).mounted_points)
    /\ Set(p, [r EXCEPT !.pc = "done", !.exit = "ok"])
    /\ UNCHANGED <<mountTable, dirs, files, udevDb, runs>>

(***************************************************************************)
(* Inputs: mount tables and udev databases                                 *)
(***************************************************************************)
Blk(name, fstype, label, model, dmname, usb, dev, size, slaves) ==
    [name |-> name, devnode |-> "/dev/" \o name, fstype |-> fstype,
     label |-> label, model |-> model, dmname |-> dmname, usb |-> usb,
     dev |-> dev, size |-> size, slaves |-> slaves]

Slave(name) == [ok |-> TRUE, name |-> name]
SlaveErr == [ok |-> FALSE, name |-> ""]

\* All sequences over S of length at most n.
SeqsUpTo(S, n) == UNION {[1..k -> S] : k \in 0..n}

\* The optional tags of a mount: none (a private mount), one, or several.
TagChoices == {<<>>, <<"shared:1">>, <<"shared:1", "master:2">>}

ParseMounts ==
    {Mnt(dev, mp, tags, "vfat", "/dev/sdb1") :
        dev \in {"8:17", "8:33"}, mp \in {"/mnt/a", "/mnt/b"},
        tags \in TagChoices}

MaxLines == 2

UsbStick ==
    Blk("sdb1", Some("vfat"), Some("L"), Some("M"), None, TRUE, "8:17", 2048, <<>>)

UsbDisk(fstype) ==
    Blk("sdc1", Some(fstype), None, None, None, TRUE, "8:33", 4096, <<>>)

\* A USB partition whose filesystem label is an absolute path, as the
\* labels "/" and "/boot" that installers give ext filesystems; udev hands
\* the "/" of a label through to ID_FS_LABEL.
LabelledDisk ==
    Blk("sdc1", Some("ext4"), Some("/boot"), None, None, TRUE, "8:33", 4096, <<>>)

SystemDisk ==
    Blk("sda1", Some("ext4"), None, Some("SSD"), None, FALSE, "8:1", 8192, <<>>)

\* The whole disks that back device-mapper devices: one on USB with a model,
\* one not on USB.
BackingDevices ==
    << Blk("sdx", None, None, Some("X"), None, TRUE, "8:48", 8192, <<>>),
       Blk("sdy", None, None, Some("Y"), None, FALSE, "8:64", 8192, <<>>) >>

SlaveChoices ==
    {<<>>, <<SlaveErr>>, <<Slave("sdx")>>, <<Slave("sdy")>>,
     <<Slave("sdx"), Slave("sdy")>>, <<Slave("sdy"), Slave("sdx")>>,
     <<Slave("sdx"), SlaveErr>>}

\* The properties a scanned device may have; a device that is no
\* device-mapper device has no slaves.
EnumTemplates ==
    {[fstype |-> f, model |-> m, usb |-> u, dmname |-> dm, slaves |-> sl] :
        f \in {None, Some("vfat")}, m \in {None, Some("OWN")},
        u \in BOOLEAN, dm \in {None, Some("luks")}, sl \in SlaveChoices}

EnumDevice(t, i) ==
    Blk("blk" \o ToString(i), t.fstype, None, t.model, t.dmname, t.usb,
        "253:" \o ToString(i), 2048,
        IF IsSome(t.dmname) THEN t.slaves ELSE <<>>)

MaxDevices == 2

InfoArgs == NoArgs

(***************************************************************************)
(* SpecParse: the info command over every mount table of at most MaxLines  *)
(* lines, with one USB partition plugged in.                               *)
(***************************************************************************)
InitParse ==
    /\ mountTable \in SeqsUpTo(ParseMounts, MaxLines)
    /\ dirs = {}
    /\ files = {}
    /\ udevDb = <<UsbStick>>
    /\ inv = [p \in ConcProcs |-> IdleInv]
    /\ runs = 0

NextInfo ==
    \E p \in SeqProcs :
        \/ Invoke(p, "info", "u", FALSE)
        \/ ScanDevice(p)
        \/ ParseLine(p)
        \/ ParseEnd(p)
        \/ ScanEnd(p, InfoArgs)
        \/ PrintInfo(p)
        \/ Exit(p)

SpecParse == InitParse /\ [][NextInfo]_vars

(***************************************************************************)
(* SpecEnum: the info command over every udev database of the backing      *)
(* devices and at most MaxDevices further devices.                         *)
(***************************************************************************)
InitEnum ==
    /\ \E tags \in TagChoices :
           mountTable = <<Mnt("8:1", "/", tags, "ext4", "/dev/sda1")>>
    /\ dirs = {}
    /\ files = {}
    /\ \E ts \in SeqsUpTo(EnumTemplates, MaxDevices) :
           udevDb = BackingDevices \o [i \in 1..Len(ts) |-> EnumDevice(ts[i], i)]
    /\ inv = [p \in ConcProcs |-> IdleInv]
    /\ runs = 0

SpecEnum == InitEnum /\ [][NextInfo]_vars


(***************************************************************************)
(* Spec: invocations of mount, umount and info, one at a time.             *)
(*                                                                         *)
(* The host has a system disk mounted on "/", no, one or two USB           *)
(* partitions plugged in, and the directories /mnt/a and /mnt/b.  The      *)
(* first USB partition (label L) may be mounted already: by an earlier     *)
(* run of the tool on its directory under the auto-mount root (a           *)
(* directory with the identify file), by hand on /mnt/a or /mnt/b, or      *)
(* both.  Its candidate directory, and the first suffixed one, may exist   *)
(* as plain directories.                                                   *)
(***************************************************************************)
AutoMountDir == "/var/run/media/"

StickDir == "/var/run/media/u/L"

BaseDirs == {"/mnt", "/mnt/a", "/mnt/b"}

StickMount(mp, tags) == Mnt("8:17", mp, tags, "vfat", "/dev/sdb1")

Scenario(ds, fs, mps) == [dirs |-> ds, files |-> fs, mps |-> mps]

Scenarios ==
    { Scenario({}, {}, <<>>),
      Scenario(AncestorsAndSelf(StickDir), {}, <<>>),
      Scenario(AncestorsAndSelf(StickDir) \cup {"/var/run/media/u/L-0"}, {}, <<>>),
      Scenario(AncestorsAndSelf(StickDir), {PathJoin(StickDir, IDENTIFY_FILE)},
               <<StickDir>>),
      Scenario(AncestorsAndSelf(StickDir), {PathJoin(StickDir, IDENTIFY_FILE)},
               <<"/mnt/a", StickDir>>),
      Scenario(AncestorsAndSelf(StickDir), {PathJoin(StickDir, IDENTIFY_FILE)},
               <<StickDir, "/mnt/b">>),
      Scenario({}, {}, <<"/mnt/a", "/mnt/b">>) }

Plugged ==
    {<<>>, <<UsbStick>>}
        \cup {<<UsbStick, UsbDisk(f)>> : f \in {"ext4", "ntfs", "exfat"}}
        \cup {<<UsbStick, LabelledDisk>>}

Init ==
    /\ \E sc \in Scenarios, plugged \in Plugged, tags \in {<<>>, <<"shared:1">>} :
          /\ sc.mps # <<>> => plugged # <<>>
          /\ mountTable = <<Mnt("8:1", "/", tags, "ext4", "/dev/sda1")>>
                             \o [i \in 1..Len(sc.mps) |-> StickMount(sc.mps[i], tags)]
          /\ dirs = BaseDirs \cup sc.dirs
          /\ files = sc.files
          /\ udevDb = <<SystemDisk>> \o plugged
    /\ inv = [p \in ConcProcs |-> IdleInv]
    /\ runs = 0

DevPathArgs == {None, Some("/dev/sdb1"), Some("/dev/sdc1"), Some("/dev/sdz9")}
MountPathArgs == {None, Some("/mnt/a")}
MountOptionArgs == {None, Some("ro")}
Logins == {"root", "u"}

MountArgs ==
    {[auto_mount_dir |-> AutoMountDir, mount_option |-> o, dev_path |-> d,
      mount_path |-> m] :
        o \in MountOptionArgs, d \in DevPathArgs, m \in MountPathArgs}

UmountArgs ==
    {[auto_mount_dir |-> "", mount_option |-> None, dev_path |-> d,
      mount_path |-> None] : d \in DevPathArgs}

Commands == {"mount", "umount", "info"}

ArgsOf(cmd) ==
    IF cmd = "mount" THEN MountArgs
    ELSE IF cmd = "umount" THEN UmountArgs
    ELSE {InfoArgs}

Step(p) ==
    \/ \E cmd \in Commands, l \in Logins, s \in BOOLEAN : Invoke(p, cmd, l, s)
    \/ ScanDevice(p)
    \/ ParseLine(p)
    \/ ParseEnd(p)
    \/ \E a \in ArgsOf(inv[p].cmd) : ScanEnd(p, a)
    \/ PrintInfo(p)
    \/ SelectDevice(p)
    \/ CheckMounted(p)
    \/ ProbeCandidate(p)
    \/ ProbeSuffix(p)
    \/ CreateDir(p)
    \/ CreateIdentifyFile(p)
    \/ DoMount(p)
    \/ CheckUmount(p)
    \/ UnmountPoint(p)
    \/ CheckIdentify(p)
    \/ RemoveIdentifyFile(p)
    \/ RemoveDir(p)
    \/ UmountEnd(p)
    \/ Exit(p)

Next == \E p \in SeqProcs : Step(p)

Spec == Init /\ [][Next]_vars


(***************************************************************************)
(* SpecConc: two mount invocations at the same time.                       *)
(*                                                                         *)
(* Each process has its own copy of the mount table, read once             *)
(* (lib.rs:59-61); the mount table of the kernel and the filesystem are    *)
(* shared, and nothing in main orders the steps of two processes.  The     *)
(* host has one USB partition, not mounted; its candidate directory may    *)
(* exist.                                                                  *)
(***************************************************************************)
InitConc ==
    /\ mountTable = <<Mnt("8:1", "/", <<"shared:1">>, "ext4", "/dev/sda1")>>
    /\ \E ds \in {{}, AncestorsAndSelf(StickDir)} : dirs = BaseDirs \cup ds
    /\ files = {}
    /\ udevDb = <<SystemDisk, UsbStick>>
    /\ inv = [p \in ConcProcs |-> IdleInv]
    /\ runs = 0

ConcMountArgs ==
    {[auto_mount_dir |-> AutoMountDir, mount_option |-> None, dev_path |-> d,
      mount_path |-> None] : d \in {None, Some("/dev/sdb1")}}

StepMount(p) ==
    \/ Invoke(p, "mount", "u", FALSE)
    \/ ScanDevice(p)
    \/ ParseLine(p)
    \/ ParseEnd(p)
    \/ \E a \in ConcMountArgs : ScanEnd(p, a)
    \/ SelectDevice(p)
    \/ CheckMounted(p)
    \/ ProbeCandidate(p)
    \/ ProbeSuffix(p)
    \/ CreateDir(p)
    \/ CreateIdentifyFile(p)
    \/ DoMount(p)
    \/ Exit(p)

NextConc == \E p \in ConcProcs : StepMount(p)

SpecConc == InitConc /\ [][NextConc]_vars

(***************************************************************************)
(* Claims about the mount-table parser (SpecParse)                         *)
(***************************************************************************)
RECURSIVE PointsOf(_, _)
\* The mount points of the lines of the table that carry id, in file order.
PointsOf(table, id) ==
    IF table = <<>> THEN <<>>
    ELSE (IF Head(table).dev = id THEN <<Head(table).mp>> ELSE <<>>)
             \o PointsOf(Tail(table), id)

LookupIds == {"8:17", "8:33", "8:99"}

\* C6: every line of the fixed layout, with any number of optional tags
\* (none, one, several), is parsed and its mount point is recorded under its
\* major:minor id; it is never a fatal parse error.
C6_EveryTagCountAccepted ==
    \A p \in SeqProcs :
        /\ inv[p].exit # "mountinfo parse error"
        /\ (inv[p].pc = "parse" /\ inv[p].parsePos > 1) =>
              LET m == mountTable[inv[p].parsePos - 1]
                  got == get_mount_points_by_id(inv[p].parseInfo, m.dev)
              IN  got # <<>> /\ got[Len(got)] = m.mp

\* C7: for any well-formed mount table, once it has been read, lookup(id) is
\* the sequence of the mount points of the lines carrying id, in file order,
\* and the empty sequence for an id no line carries.
C7_LookupIsPointsInFileOrder ==
    \A p \in SeqProcs :
        (inv[p].exit = "mountinfo parse error" \/ inv[p].pc \in {"print", "done"}) =>
            /\ IsSome(inv[p].mountInfo)
            /\ \A id \in LookupIds :
                   get_mount_points_by_id(Unwrap(inv[p].mountInfo), id)
                       = PointsOf(mountTable, id)

(***************************************************************************)
(* Claims about device classification (SpecEnum)                           *)
(***************************************************************************)
InInventory(p, d) ==
    \E j \in 1..Len(inv[p].devices) : inv[p].devices[j].dev_path = d.devnode

\* The slave a device-mapper device resolves to: the last readable entry of
\* its slaves directory.
ResolvedSlaves(db, d) ==
    {DeviceByName(db, d.slaves[i].name) : i \in
        {i \in 1..Len(d.slaves) :
            d.slaves[i].ok /\ \A j \in (i + 1)..Len(d.slaves) : ~d.slaves[j].ok}}

Eligible(db, d) ==
    /\ d.fstype # None
    /\ \/ d.usb
       \/ d.dmname # None /\ \E sl \in ResolvedSlaves(db, d) : sl.usb

InventoryReturned(p) == inv[p].pc \in {"print", "done"}

C9_ModelNameSource ==
    \A p \in SeqProcs :
        InventoryReturned(p) =>
            \A i \in 1..Len(udevDb) : \A j \in 1..Len(inv[p].devices) :
                inv[p].devices[j].dev_path = udevDb[i].devnode =>
                    IF udevDb[i].usb
                    THEN inv[p].devices[j].usb_model_name = udevDb[i].model
                    ELSE \E sl \in ResolvedSlaves(udevDb, udevDb[i]) :
                             inv[p].devices[j].usb_model_name = sl.model

\* A device-mapper device with a model of its own is listed with the model
\* of its USB slave, and a USB device without a model with none.
C9_Witness ==
    \E p \in SeqProcs :
        /\ InventoryReturned(p)
        /\ \E i, j \in 1..Len(inv[p].devices) :
              /\ inv[p].devices[i].usb_model_name = Some("X")
              /\ \E k \in 1..Len(udevDb) :
                    /\ udevDb[k].devnode = inv[p].devices[i].dev_path
                    /\ udevDb[k].model = Some("OWN")
              /\ inv[p].devices[j].usb_model_name = None


(***************************************************************************)
(* Claims about mount and umount (Spec)                                    *)
(***************************************************************************)
\* The positions of the invocation's calls of primitive op on path.
Calls(r, op, path, ok) ==
    {i \in 1..Len(r.ops) :
        r.ops[i].op = op /\ r.ops[i].path = path /\ r.ops[i].ok = ok}

Ended(r) == r.pc \in {"done", "panic"}

\* C1: a mount request for a device whose mounted-points list is not empty is
\* rejected with the already-mounted error naming the first mount point, and
\* calls no primitive that changes the system (no directory, no identify
\* file, no mount), with or without an explicit mount path and however the
\* device was selected.
C1_AlreadyMountedRejected ==
    \A p \in SeqProcs :
        LET r == inv[p] IN
        (r.cmd = "mount" /\ r.device # None
            /\ Unwrap(r.device).mounted_points # <<>>) =>
            /\ r.ops = <<>>
            /\ r.pc \in {"check", "done"}
            /\ r.pc = "done" =>
                  /\ r.exit = "already mounted"
                  /\ r.stderr = <<[kind |-> "already mounted",
                                   path |-> Unwrap(r.device).mounted_points[1]]>>

\* A mount of an auto-selected, twice mounted device with an explicit mount
\* path has been rejected.
C1_Witness ==
    \E p \in SeqProcs :
        /\ inv[p].cmd = "mount" /\ inv[p].pc = "done"
        /\ inv[p].exit = "already mounted"
        /\ inv[p].args.dev_path = None /\ inv[p].args.mount_path # None
        /\ Len(Unwrap(inv[p].device).mounted_points) = 2

\* The paths of the invocation's unmount attempts, in the order made.
RECURSIVE UnmountAttempts(_)
UnmountAttempts(ops) ==
    IF ops = <<>> THEN <<>>
    ELSE (IF Head(ops).op = "umount" THEN <<Head(ops).path>> ELSE <<>>)
             \o UnmountAttempts(Tail(ops))

\* C2: an unmount of a device with n >= 1 mount points attempts the unmount
\* at every one of them, in list order: neither a failed unmount nor a failed
\* removal of the identify file or of the directory prevents the attempts at
\* the remaining mount points.
C2_EveryMountPointAttempted ==
    \A p \in SeqProcs :
        LET r == inv[p] IN
        (r.cmd = "umount" /\ Ended(r) /\ r.device # None
            /\ Unwrap(r.device).mounted_points # <<>>) =>
            UnmountAttempts(r.ops) = Unwrap(r.device).mounted_points

IdentifyPath(mp) == mp \o "/" \o ".create_by_usbmount"

UnmountedOk(r, mp) == Calls(r, "umount", mp, TRUE) # {}
RemovedDir(r, mp) == Calls(r, "rmdir", mp, TRUE) # {}
RemovedIdentify(r, mp) == Calls(r, "rmfile", IdentifyPath(mp), TRUE) # {}

\* Whether the directory held the identify file when the invocation began.
HadIdentify(r, mp) == IdentifyPath(mp) \in files \/ RemovedIdentify(r, mp)

UmountRuns(r) == r.cmd = "umount" /\ r.device # None

ClaimedCandidate(r) ==
    LET user == IF r.env.SUDO_USER # None THEN r.env.SUDO_USER[1]
                ELSE r.env.username
        d == CHOOSE d \in {udevDb[i] : i \in 1..Len(udevDb)} :
                 d.devnode = Unwrap(r.device).dev_path
        base == IF d.label # None THEN d.label[1] ELSE d.name
    IN  "/var/run/media/" \o user \o "/" \o base

AllocationRuns(r) ==
    r.cmd = "mount" /\ r.args.mount_path = None
        /\ r.pc \in {"mkdir", "mkfile", "mount"}

\* C4: without an explicit mount path the allocated path is the candidate
\* <root>/<user>/<base> if that does not exist, else <candidate>-k for the
\* least k >= 0 such that <candidate>-k does not exist; the path did not
\* exist before the allocation and is afterwards a directory that holds the
\* identify file.
C4_AllocatedPath ==
    \A p \in SeqProcs :
        LET r == inv[p]
            cand == ClaimedCandidate(r)
            taken(path) == path \in dirs \cup files
            suffixed(k) == cand \o "-" \o ToString(k)
        IN
        AllocationRuns(r) =>
            /\ r.pc = "mkdir" =>
                  /\ ~taken(r.mount_path)
                  /\ \/ r.mount_path = cand
                     \/ /\ taken(cand)
                        /\ \E k \in 0..Cardinality(dirs) :
                              /\ r.mount_path = suffixed(k)
                              /\ \A j \in 0..(k - 1) : taken(suffixed(j))
            /\ r.pc = "mkfile" => r.mount_path \in dirs
            /\ r.pc = "mount" =>
                  /\ r.mount_path \in dirs
                  /\ IdentifyPath(r.mount_path) \in files

\* C5: after any sequence of completed mount and unmount invocations no
\* directory of the tool is orphaned: every directory that holds the
\* identify file is the mount point of a mounted device, also after an
\* invocation whose mount failed.
C5_NoOrphanedDirectory ==
    (\A p \in SeqProcs : inv[p].pc \in {"idle", "done"}) =>
        \A d \in dirs :
            IdentifyPath(d) \in files => IsMountPoint(mountTable, d)

\* The filesystem type udev reports for the device behind a device path.
FsTypeOf(dev_path) ==
    LET d == CHOOSE d \in {udevDb[i] : i \in 1..Len(udevDb)} : d.devnode = dev_path
    IN  d.fstype[1]

\* C10: the options handed to the mount primitive are the caller's option
\* string, unchanged, when one was given; else uid=<U>,gid=<G> for ntfs, vfat
\* and exfat, U and G being SUDO_UID and SUDO_GID when set and the effective
\* uid and gid otherwise; else the empty string.
C10_MountOptions ==
    \A p \in SeqProcs :
        LET r == inv[p] IN
        \A i \in 1..Len(r.ops) :
            r.ops[i].op = "mount" =>
                LET fs == FsTypeOf(r.ops[i].src)
                    U == IF r.env.SUDO_UID # None THEN r.env.SUDO_UID[1]
                         ELSE ToString(r.env.euid)
                    G == IF r.env.SUDO_GID # None THEN r.env.SUDO_GID[1]
                         ELSE ToString(r.env.egid)
                IN  /\ r.args.mount_option # None =>
                          r.ops[i].opts = r.args.mount_option[1]
                    /\ (r.args.mount_option = None /\ fs \in {"ntfs", "vfat", "exfat"}) =>
                          r.ops[i].opts = "uid=" \o U \o ",gid=" \o G
                    /\ (r.args.mount_option = None /\ fs \notin {"ntfs", "vfat", "exfat"}) =>
                          r.ops[i].opts = ""

\* An escalated process (effective uid 0) mounted an exfat partition with the
\* ids of the user who called it.
C10_Witness ==
    \E p \in SeqProcs :
        LET r == inv[p] IN
        /\ r.env.euid = 0
        /\ \E i \in 1..Len(r.ops) :
              /\ r.ops[i].op = "mount" /\ r.ops[i].ok
              /\ r.ops[i].opts = "uid=1000,gid=1000"
              /\ FsTypeOf(r.ops[i].src) = "exfat"

(***************************************************************************)
(* Claims about the selection of the device (Spec)                         *)
(***************************************************************************)
\* The invocation of mount or umount has been through the selection.
SelectionDone(r) ==
    /\ r.cmd \in {"mount", "umount"}
    /\ r.device # None \/ r.pc = "done"

\* The invocation ended with a non-zero exit status and called no primitive
\* that changes the system.
FailedWithoutChange(r) ==
    /\ r.pc = "done" /\ r.exit # "ok" /\ r.device = None
    /\ r.ops = <<>>

Inventory(r) == {r.devices[i] : i \in 1..Len(r.devices)}

\* The devices of the inventory the command can act on: for mount those
\* without a mount point, for umount those with one.
Candidates(r) ==
    {d \in Inventory(r) :
        IF r.cmd = "mount" THEN d.mounted_points = <<>>
        ELSE d.mounted_points # <<>>}

\* The cases of C11 without the interactive one: no device path and an empty
\* inventory, no device path and one device, a device path in the inventory
\* and one not in it.
SelectionWithoutPrompt(r) ==
    LET n == Cardinality(Inventory(r)) IN
    /\ (r.args.dev_path = None /\ n = 0) => FailedWithoutChange(r)
    /\ (r.args.dev_path = None /\ n = 1) =>
          /\ r.device # None /\ Unwrap(r.device) \in Inventory(r)
          /\ ~r.prompted
    /\ r.args.dev_path # None =>
          /\ ~r.prompted
          /\ IF \E d \in Inventory(r) : d.dev_path = Unwrap(r.args.dev_path)
             THEN /\ r.device # None /\ Unwrap(r.device) \in Inventory(r)
                  /\ Unwrap(r.device).dev_path = Unwrap(r.args.dev_path)
             ELSE FailedWithoutChange(r)

\* C11 as claimed: with no device path, an empty inventory fails the
\* invocation without any change, a single device is selected without a
\* prompt, and with more than one device the operator is prompted and selects
\* one of them (or leaves the prompt); with a device path, that device of the inventory is selected,
\* and a path not in the inventory fails the invocation without any change.
C11_SelectionAsClaimed ==
    \A p \in SeqProcs :
        LET r == inv[p] IN
        SelectionDone(r) =>
            /\ SelectionWithoutPrompt(r)
            /\ (r.args.dev_path = None /\ Cardinality(Inventory(r)) > 1) =>
                  /\ r.prompted
                  /\ r.device # None => Unwrap(r.device) \in Inventory(r)

\* C11, amended: as claimed, but with more than one device in the inventory
\* and no device path the operator is prompted only when the inventory has a
\* candidate (for mount a device without a mount point, for umount a device
\* with one) and can select only a candidate; without a candidate, and when
\* the operator leaves the prompt, the invocation fails without any change.
C11_SelectionAmongCandidates ==
    \A p \in SeqProcs :
        LET r == inv[p] IN
        SelectionDone(r) =>
            /\ SelectionWithoutPrompt(r)
            /\ (r.args.dev_path = None /\ Cardinality(Inventory(r)) > 1) =>
                  /\ r.prompted <=> Candidates(r) # {}
                  /\ IF r.device # None
                     THEN r.prompted /\ Unwrap(r.device) \in Candidates(r)
                     ELSE FailedWithoutChange(r)

\* Out of two devices the operator of a mount was offered, and selected, the
\* one that was not mounted.
C11_Witness ==
    \E p \in SeqProcs :
        LET r == inv[p] IN
        /\ r.cmd = "mount" /\ r.args.dev_path = None /\ r.prompted
        /\ Cardinality(Inventory(r)) = 2
        /\ Cardinality(Candidates(r)) = 1
        /\ r.device # None /\ Unwrap(r.device) \in Candidates(r)

(***************************************************************************)
(* Claims about concurrent invocations (SpecConc)                          *)
(***************************************************************************)
\* A mount invocation without an explicit mount path that has passed the
\* already-mounted check and holds the path it allocated.
Allocating(r) ==
    /\ r.cmd = "mount" /\ r.args.mount_path = None /\ r.device # None
    /\ r.pc \in {"mkdir", "mkfile", "mount"}

\* The invocation has called the mount primitive with the device and target.
CalledMount(r, src, target) ==
    \E i \in 1..Len(r.ops) :
        r.ops[i].op = "mount" /\ r.ops[i].src = src /\ r.ops[i].path = target

\* C12: concurrent invocations are not coordinated.  A mount invocation
\* decides on the copy of the mount table it read, so it passes the
\* already-mounted check also when the device has been mounted since; and
\* once two invocations for one device have found the same path unused,
\* nothing refuses the second what the first has done already: creating the
\* directory and the identify file can succeed for both, and both go on to
\* the mount primitive with the same device and target.
C12_NotCoordinated ==
    \A p \in ConcProcs : \A q \in ConcProcs \ {p} :
        LET r == inv[p]
            s == inv[q] IN
        /\ Allocating(r) => Unwrap(r.device).mounted_points = <<>>
        /\ (Allocating(r) /\ s.device = r.device /\ s.mount_path = r.mount_path
              /\ (Allocating(s) \/ CalledMount(s, Unwrap(r.device).dev_path,
                                               r.mount_path))) =>
              /\ r.pc = "mkdir" => CreateDirAllOk(r.mount_path)
              /\ r.pc = "mkfile" =>
                    FileCreateOk(r.mount_path, IdentifyPath(r.mount_path))
              /\ r.pc = "mount" =>
                    /\ Calls(r, "mkdir", r.mount_path, TRUE) # {}
                    /\ Calls(r, "create", IdentifyPath(r.mount_path), TRUE) # {}

\* Both invocations read the mount table before either mounted, selected,
\* created and marked the same directory, and called the mount primitive with
\* the same device and target.
C12_Witness ==
    \E p \in ConcProcs : \E q \in ConcProcs \ {p} :
        LET r == inv[p]
            s == inv[q]
            both == {r, s} IN
        /\ \A x \in both :
              /\ x.cmd = "mount" /\ x.args.mount_path = None /\ x.pc = "done"
              /\ Unwrap(x.device).dev_path = "/dev/sdb1"
              /\ Unwrap(x.device).mounted_points = <<>>
              /\ x.mount_path = StickDir
              /\ Calls(x, "mkdir", StickDir, TRUE) # {}
              /\ Calls(x, "create", IdentifyPath(StickDir), TRUE) # {}
              /\ CalledMount(x, "/dev/sdb1", StickDir)
        /\ r.exit = "ok" /\ s.exit = "mount failed"

=============================================================================
